---- MODULE Spec2Model ----
(***************************************************************************)
(* A model of presilience.py: the three functions                          *)
(*   modified_shannon_entropy(G, f, removal, niter, return_stdv)           *)
(*   resilience(G, ntimes, rate, output_list, removal, H_std, niter)       *)
(*   add_node(G, m, n, method, alpha)                                      *)
(* acting on one networkx graph G owned by the caller.                     *)
(*                                                                         *)
(* Node identifiers are tagged values: <<"int", k>> is the Python int k,   *)
(* <<"str", s>> is the Python str s.  Entropies are kept in fixed point,   *)
(* thousandths (Milli); gene_expression values are exact fractions         *)
(* <<numerator, denominator>> in lowest terms.                             *)
(***************************************************************************)
EXTENDS Integers, Sequences, FiniteSets, TLC

VARIABLES G, G0, call, ret, pc, mse, res, calls

vars == <<G, G0, call, ret, pc, mse, res, calls>>

(***************************************************************************)
(* Bounds of the model.                                                    *)
(***************************************************************************)
\* initial graphs have the nodes 0 .. k-1 for k <= MaxInitNodes
MaxInitNodes == 3
\* add_node is not called on a graph that already has MaxNodes nodes
MaxNodes == 4
\* the edge counts m given to add_node are 0 .. MaxM
MaxM == 3
\* the caller makes at most MaxCalls calls of add_node
MaxCalls == 4

(***************************************************************************)
(* Fractions: the float values of gene_expression, kept exactly.           *)
(***************************************************************************)
RECURSIVE GCD(_, _)
GCD(a, b) == IF b = 0 THEN a ELSE GCD(b, a % b)

LCM(a, b) == (a \div GCD(a, b)) * b

\* the fraction n / d, d > 0, in lowest terms
Frac(n, d) ==
    LET g == GCD(IF n < 0 THEN 0 - n ELSE n, d)
    IN  <<n \div g, d \div g>>

FracLeq(x, y) == x[1] * y[2] <= y[1] * x[2]
FracAdd(x, y) == Frac(x[1] * y[2] + y[1] * x[2], x[2] * y[2])
FracSub(x, y) == Frac(x[1] * y[2] - y[1] * x[2], x[2] * y[2])
FracMul(x, y) == Frac(x[1] * y[1], x[2] * y[2])

\* the gene_expression of node i of an initial graph, when it carries one:
\* node 0 is not expressed, no two nodes are expressed alike
GexOf(i) == Frac(100 * i * i, 1)
\* the exponents alpha given to add_node
Alphas == {0, 1}
Methods == {"random", "degree", "bio_smart"}

(***************************************************************************)
(* Python values.                                                          *)
(***************************************************************************)
PyInt(k) == <<"int", k>>
PyStr(s) == <<"str", s>>
IsInt(v) == v[1] = "int"

Digits == <<"0", "1", "2", "3", "4", "5", "6", "7", "8", "9">>

\* str(v) of a node id: the decimal digits of an int, a str itself
str(v) == IF IsInt(v) THEN Digits[v[2] + 1] ELSE v[2]

\* 'added_protein_' + str(n)
AddedProtein(n) == PyStr("added_protein_" \o str(n))

(***************************************************************************)
(* networkx.Graph: a node set, a set of undirected edges {u, v} (a         *)
(* self-loop is the singleton {u}) and the node attribute gene_expression, *)
(* a function on the nodes that carry it.                                  *)
(***************************************************************************)
Graph(ns, es, gx) == [nodes |-> ns, edges |-> es, gex |-> gx]

EmptyFun == [x \in {} |-> 0]

number_of_nodes(g) == Cardinality(g.nodes)

\* G.degree(v): a self-loop counts twice
degree(g, v) ==
    Cardinality({e \in g.edges : v \in e}) + (IF {v} \in g.edges THEN 1 ELSE 0)

\* for node_j in eijs: G.add_edge(u, node_j): both ends of an edge become
\* nodes, the edge set absorbs a repeat; without targets nothing is added
add_edges(g, u, targets) ==
    [g EXCEPT !.nodes = @ \cup (IF targets = {} THEN {} ELSE {u}) \cup targets,
              !.edges = @ \cup {{u, t} : t \in targets}]

\* a faulty variant: the node loses its edges and stays, an isolate
remove_node_isolated(g, v) == [g EXCEPT !.edges = {e \in @ : v \notin e}]

\* G.remove_node(v): the node, its incident edges and its attributes go
remove_node(g, v) ==
    [nodes |-> g.nodes \ {v},
     edges |-> {e \in g.edges : v \notin e},
     gex   |-> [x \in (DOMAIN g.gex) \ {v} |-> g.gex[x]]]

RECURSIVE remove_nodes_from(_, _)
\* for node_r in remove_nodes: G_f.remove_node(node_r)
remove_nodes_from(g, rs) ==
    IF rs = {} THEN g
    ELSE LET r == CHOOSE x \in rs : TRUE
         IN  remove_nodes_from(remove_node(g, r), rs \ {r})

\* nx.get_node_attributes(G, 'gene_expression')
get_node_attributes(g) == g.gex

\* nx.set_node_attributes(G, values, 'gene_expression'): keys that are not
\* nodes of G are skipped
set_node_attributes(g, values) ==
    [g EXCEPT !.gex = [x \in (DOMAIN g.gex) \cup ((DOMAIN values) \cap g.nodes) |->
                          IF x \in DOMAIN values THEN values[x] ELSE g.gex[x]]]

RECURSIVE Reach(_, _)
\* the nodes reachable from the set seen along the edges of g
Reach(g, seen) ==
    LET next == seen \cup {v \in g.nodes : \E e \in g.edges, u \in seen :
                                              u \in e /\ v \in e}
    IN  IF next = seen THEN seen ELSE Reach(g, next)

\* nx.connected_components(G): the node sets of the components
connected_components(g) == {Reach(g, {v}) : v \in g.nodes}

(***************************************************************************)
(* numpy.                                                                  *)
(***************************************************************************)
RECURSIVE SumOver(_, _)
\* sum(w[x] for x in keys)
SumOver(w, keys) ==
    IF keys = {} THEN 0
    ELSE LET k == CHOOSE x \in keys : TRUE
         IN  w[k] + SumOver(w, keys \ {k})

RECURSIVE SortedValues(_, _)
\* the values w[x], x in keys, in ascending order (np.sort)
SortedValues(w, keys) ==
    IF keys = {} THEN <<>>
    ELSE LET k == CHOOSE x \in keys : \A y \in keys : FracLeq(w[x], w[y])
         IN  <<w[k]>> \o SortedValues(w, keys \ {k})

\* np.percentile(values, q), method 'linear': the virtual index q*(n-1)/100
\* is interpolated between its two neighbours in the sorted values
np_percentile(w, q) ==
    LET s   == SortedValues(w, DOMAIN w)
        n   == Len(s)
        lo  == ((n - 1) * q) \div 100
        rem == ((n - 1) * q) % 100
        hi  == IF lo + 2 <= n THEN lo + 2 ELSE n
    IN  FracAdd(s[lo + 1],
                FracMul(Frac(rem, 100), FracSub(s[hi], s[lo + 1])))

\* np.array(nodes)[i] for the list element v: a list of ints stays ints, a
\* list of strs stays strs, a list that mixes both becomes an array of strs
np_array_item(nodes, v) ==
    IF (\A x \in nodes : IsInt(x)) \/ (\A x \in nodes : ~IsInt(x))
    THEN v ELSE PyStr(str(v))

\* np.random.choice(a, size=(size,), replace=False, p=p) raises ValueError:
\* 'a' cannot be empty / 'a' and 'p' must have same size / probabilities
\* contain NaN (weights that sum to 0 were divided by their sum) / cannot
\* take a larger sample than population / fewer non-zero entries in p than
\* size.  p is given by its weights w before the division by their sum.
choice_raises(a, size, w) ==
    \/ a = {}
    \/ Cardinality(DOMAIN w) # Cardinality(a)
    \/ SumOver(w, DOMAIN w) = 0
    \/ size > Cardinality(a)
    \/ Cardinality({x \in DOMAIN w : w[x] > 0}) < size

\* the samples np.random.choice can return: size distinct elements of a of
\* non-zero probability
choice_samples(a, size, w) ==
    {S \in SUBSET {x \in a : w[x] > 0} : Cardinality(S) = size}

\* a faulty variant: the sample size is clamped to the population
np_random_choice_clamped(a, size, w) ==
    LET k == IF size > Cardinality(a) THEN Cardinality(a) ELSE size
    IN  IF a = {} \/ Cardinality(DOMAIN w) # Cardinality(a)
           \/ Cardinality({x \in DOMAIN w : w[x] > 0}) < k
        THEN [raises |-> TRUE, samples |-> {}]
        ELSE [raises |-> FALSE, samples |-> choice_samples(a, k, w)]

\* np.random.choice(nodes, size=(m,), replace=False, p=probs)
np_random_choice(a, size, w) ==
    IF choice_raises(a, size, w)
    THEN [raises |-> TRUE, samples |-> {}]
    ELSE [raises |-> FALSE, samples |-> choice_samples(a, size, w)]

\* the array eijs as the set of its elements
eijs_of(nodes, S) == {np_array_item(nodes, v) : v \in S}

(***************************************************************************)
(* add_node(G, m, n, method, alpha).  Each operator gives the set of       *)
(* outcomes of one branch of the function: the exception raised, or the    *)
(* graph G has become when the call returns.                               *)
(***************************************************************************)
Raised(g, exc) == [status |-> "error", exc |-> exc, graph |-> g, eijs |-> {}]
Returned(g, eijs) == [status |-> "ok", exc |-> "", graph |-> g, eijs |-> eijs]

\* probs = [1 / N for i in range(N)]
random_probs(g) == [v \in g.nodes |-> 1]

\* d**alpha for a degree d >= 0 and an exponent alpha >= 0 (0**0 is 1)
RECURSIVE Pow(_, _)
Pow(d, alpha) == IF alpha = 0 THEN 1 ELSE d * Pow(d, alpha - 1)

\* probs = (degrees**alpha) / sum(degrees**alpha)
degree_probs(g, alpha) == [v \in g.nodes |-> Pow(degree(g, v), alpha)]

\* the branch method == 'random'
add_node_random(g, m, n) ==
    LET c == np_random_choice(g.nodes, m, random_probs(g))
    IN  IF c.raises THEN {Raised(g, "ValueError")}
        ELSE {Returned(add_edges(g, n, eijs_of(g.nodes, S)), eijs_of(g.nodes, S)) :
                  S \in c.samples}

\* the branch method == 'degree'
add_node_degree(g, m, n, alpha) ==
    LET c == np_random_choice(g.nodes, m, degree_probs(g, alpha))
    IN  IF c.raises THEN {Raised(g, "ValueError")}
        ELSE {Returned(add_edges(g, n, eijs_of(g.nodes, S)), eijs_of(g.nodes, S)) :
                  S \in c.samples}

\* gene_exp_decile = np.percentile(gene_expression, 10)
gene_exp_decile(gene_expression) == np_percentile(gene_expression, 10)

\* a faulty variant: a node without the attribute counts as expression 0
gene_expression_defaulted(g) ==
    [v \in g.nodes |-> IF v \in DOMAIN g.gex THEN g.gex[v] ELSE Frac(0, 1)]

\* gene_expression = np.array(list(gex_dict.values()))
gene_expression_of(g) == get_node_attributes(g)

RECURSIVE CommonDenominator(_, _)
\* the least common denominator of the values w[x], x in keys
CommonDenominator(w, keys) ==
    IF keys = {} THEN 1
    ELSE LET k == CHOOSE x \in keys : TRUE
         IN  LCM(w[k][2], CommonDenominator(w, keys \ {k}))

\* probs = gene_expression / sum(gene_expression), as the weights before
\* the division by their sum: the values over their common denominator
bio_smart_probs(gene_expression) ==
    LET d == CommonDenominator(gene_expression, DOMAIN gene_expression)
    IN  [v \in DOMAIN gene_expression |->
            gene_expression[v][1] * (d \div gene_expression[v][2])]

\* the branch method == 'bio_smart'
add_node_bio_smart(g, m, n) ==
    LET gene_expression == gene_expression_of(g)
        c    == np_random_choice(g.nodes, m, bio_smart_probs(gene_expression))
        new  == AddedProtein(n)
        done(S) ==
            LET g1 == add_edges(g, new, eijs_of(g.nodes, S))
                gene_exp_dict ==
                    [x \in (DOMAIN get_node_attributes(g1)) \cup {new} |->
                        IF x = new THEN gene_exp_decile(gene_expression)
                        ELSE get_node_attributes(g1)[x]]
            IN  set_node_attributes(g1, gene_exp_dict)
    IN  IF DOMAIN gene_expression = {}
        THEN {Raised(g, "IndexError"), Raised(g, "ValueError")}
        ELSE IF c.raises THEN {Raised(g, "ValueError")}
        ELSE {Returned(done(S), eijs_of(g.nodes, S)) : S \in c.samples}

add_node(g, m, n, method, alpha) ==
    CASE method = "random"    -> add_node_random(g, m, n)
      [] method = "degree"    -> add_node_degree(g, m, n, alpha)
      [] method = "bio_smart" -> add_node_bio_smart(g, m, n)

(***************************************************************************)
(* Floating point, in thousandths.                                         *)
(***************************************************************************)
Milli == 1000

\* the float nan, which no entropy (an absolute value) can equal
NaN == -1

\* 1000 * log2(k), rounded, for k = 1 .. 12
Log2Table == <<0, 1000, 1585, 2000, 2322, 2585, 2807, 3000, 3170, 3322, 3459, 3585>>

Log2Milli(k) == Log2Table[k]

RECURSIVE SqrtBetween(_, _, _)
\* the largest r in lo .. hi with r * r <= x, by bisection
SqrtBetween(x, lo, hi) ==
    IF lo = hi THEN lo
    ELSE LET mid == (lo + hi + 1) \div 2
         IN  IF mid * mid <= x THEN SqrtBetween(x, mid, hi)
             ELSE SqrtBetween(x, lo, mid - 1)

\* the square root of x, rounded down, for 0 <= x <= 1 (in millionths: a
\* squared deviation of two entropies, which lie in [0, 1])
ISqrt(x) == SqrtBetween(x, 0, Milli)

RECURSIVE SeqSum(_)
SeqSum(s) == IF s = <<>> THEN 0 ELSE Head(s) + SeqSum(Tail(s))

HasNaN(s) == \E i \in DOMAIN s : s[i] = NaN

\* np.array(s).mean()
np_mean(s) == IF HasNaN(s) THEN NaN ELSE SeqSum(s) \div Len(s)

\* np.array(s).std(): the root of the mean squared deviation from the mean
np_std(s) ==
    IF HasNaN(s) THEN NaN
    ELSE LET mu == np_mean(s)
         IN  ISqrt(SeqSum([i \in DOMAIN s |-> (s[i] - mu) * (s[i] - mu)]) \div Len(s))

(***************************************************************************)
(* modified_shannon_entropy(G, f, removal, niter, return_stdv).            *)
(* A fraction f is the pair <<a, b>> for a / b.                            *)
(***************************************************************************)
\* return_stdv and niter > 4
StdvThreshold == 4

\* a faulty variant: a draw can equal f, so that nodes are marked at f = 0
remove_draws_inclusive(nodes, f) ==
    IF f[1] >= f[2] THEN {nodes} ELSE SUBSET nodes

\* remove_nodes = [i for i in G_f.nodes() if np.random.rand() < f], as the
\* set of the lists the draws can give: rand() is in [0, 1)
remove_draws(nodes, f) ==
    IF f[1] <= 0 THEN {{}}
    ELSE IF f[1] >= f[2] THEN {nodes}
    ELSE SUBSET nodes

\* N = G.number_of_nodes(), read before G_f is made
node_count(g, g_f) == number_of_nodes(g)

\* a faulty variant: G_f = G, the removals act on the caller's graph
graph_after_trial_aliased(g, g_f) == g_f

\* G_f = G.copy(): the removals act on the copy, G stays as it is
graph_after_trial(g, g_f) == g

\* c/N * log2(c/N) times N * 1000, for one component (or removed node) of size c
term(c, N) == c * (Log2Milli(c) - Log2Milli(N))

\* a faulty variant: a removed node adds nothing to curr
removed_mass_dropped(k, N) == 0

\* curr += p_i_unif * np.log2(p_i_unif), once for each of the k removed nodes
removed_mass(k, N) == k * term(1, N)

RECURSIVE component_mass(_, _)
\* curr += p_i * np.log2(p_i) for each Ci in Cs
component_mass(Cs, N) ==
    IF Cs = {} THEN 0
    ELSE LET Ci == CHOOSE x \in Cs : TRUE
         IN  term(Cardinality(Ci), N) + component_mass(Cs \ {Ci}, N)

\* H_msh = np.abs(leading_term * np.sum(out_H)), leading_term = -1/log2(N):
\* for N = 1 the leading term is -inf and curr is 0, their product is nan
H_msh_of(curr, N) ==
    IF Log2Milli(N) = 0 THEN NaN
    ELSE LET a == IF curr < 0 THEN -curr ELSE curr
         IN  (a * Milli) \div (N * Log2Milli(N))

\* the locals of one trial for the marked nodes rs
trial(g, rs) ==
    LET G_f == remove_nodes_from(g, rs)
        N   == node_count(g, G_f)
        Cs  == connected_components(G_f)
        curr == removed_mass(Cardinality(rs), N) + component_mass(Cs, N)
    IN  [N |-> N, remove_nodes |-> rs, G_f |-> G_f, Cs |-> Cs, curr |-> curr,
         H_msh |-> H_msh_of(curr, N)]

\* the value returned: (mean, std) or the mean alone
mse_return(H_msh_mean, niter, return_stdv) ==
    IF return_stdv /\ niter > StdvThreshold
    THEN [kind |-> "tuple", value |-> <<np_mean(H_msh_mean), np_std(H_msh_mean)>>]
    ELSE [kind |-> "float", value |-> <<np_mean(H_msh_mean)>>]

NoTrial == [N |-> 0, remove_nodes |-> {}, G_f |-> Graph({}, {}, EmptyFun), Cs |-> {},
            curr |-> 0, H_msh |-> 0]

NoMse == [f |-> <<0, 1>>, removal |-> "random", niter |-> 0, return_stdv |-> FALSE,
          caller |-> "none", i |-> 0, H_msh_mean |-> <<>>, warned |-> FALSE,
          last |-> NoTrial]

\* the frame of a call that has run no trial yet
mse_enter(f, removal, niter, return_stdv, caller) ==
    [f |-> f, removal |-> removal, niter |-> niter, return_stdv |-> return_stdv,
     caller |-> caller, i |-> 0, H_msh_mean |-> <<>>, warned |-> FALSE,
     last |-> NoTrial]

(***************************************************************************)
(* The state.  G is the caller's graph.  G0, call and ret record the last  *)
(* call of add_node: the graph as it was when the call was made, the       *)
(* arguments, and how the call ended.  pc, mse and res are the position    *)
(* and the locals of a running modified_shannon_entropy or resilience.     *)
(***************************************************************************)
\* the id n given to add_node: the first int that no initial graph holds
Ids == {PyInt(MaxInitNodes)}

InitNodes(k) == {PyInt(i) : i \in 0 .. k - 1}

\* the degrees of the nodes 0 .. k-1 of g do not increase with the node
DegreeOrdered(g, k) ==
    \A i \in 0 .. k - 2 : degree(g, PyInt(i)) >= degree(g, PyInt(i + 1))

\* the simple graphs on the nodes 0 .. k-1, listed by degree (every graph
\* is one of these up to the names of its nodes), gene_expression on any
\* of the nodes
InitGraphs ==
    UNION {
      {g \in {Graph(InitNodes(k), es, [v \in S |-> GexOf(v[2])]) :
                 es \in SUBSET ({{u, v} : u, v \in InitNodes(k)}
                                   \ {{u} : u \in InitNodes(k)}),
                 S \in SUBSET InitNodes(k)} : DegreeOrdered(g, k)}
      : k \in 0 .. MaxInitNodes}

NoRes == [ntimes |-> 0, rate |-> 0, output_list |-> TRUE, removal |-> "random",
          H_std |-> TRUE, niter |-> 0, t |-> 0, k |-> 0,
          H_out_mean |-> <<>>, H_out_stdv |-> <<>>, out_mean |-> <<>>, out_stdv |-> <<>>]

NoCall == [op |-> "none", m |-> 0, n |-> PyInt(0), method |-> "random", alpha |-> 1]
NoRet == [status |-> "none", exc |-> "", eijs |-> {}, kind |-> "none", value |-> <<>>]

Init ==
    /\ G \in InitGraphs
    /\ G0 = G
    /\ call = NoCall
    /\ ret = NoRet
    /\ pc = "idle"
    /\ mse = NoMse
    /\ res = NoRes
    /\ calls = 0

\* a call add_node(G, m, n, method, alpha) from the caller; an exception is
\* not caught, it ends the run (pc = "raised")
AddNode(m, n, method, alpha) ==
    /\ pc = "idle"
    /\ calls < MaxCalls
    /\ number_of_nodes(G) < MaxNodes
    /\ \E o \in add_node(G, m, n, method, alpha) :
          /\ G' = o.graph
          /\ ret' = [status |-> o.status, exc |-> o.exc, eijs |-> o.eijs,
                      kind |-> IF o.status = "ok" THEN "Graph" ELSE "none",
                      value |-> <<>>]
          /\ pc' = IF o.status = "error" THEN "raised" ELSE "idle"
    /\ G0' = G
    /\ call' = [op |-> "add_node", m |-> m, n |-> n, method |-> method, alpha |-> alpha]
    /\ calls' = calls + 1
    /\ UNCHANGED <<mse, res>>

NextGrow ==
    \E m \in 0 .. MaxM, n \in Ids, method \in Methods, alpha \in Alphas :
        /\ method # "degree" => alpha = 1
        /\ AddNode(m, n, method, alpha)

SpecGrow == Init /\ [][NextGrow]_vars

\* a call modified_shannon_entropy(G, f, removal, niter, return_stdv) from
\* the caller
CallEntropy(f, removal, niter, return_stdv) ==
    /\ pc = "idle"
    /\ pc' = "mse"
    /\ mse' = mse_enter(f, removal, niter, return_stdv, "caller")
    /\ G0' = G
    /\ call' = [NoCall EXCEPT !.op = "modified_shannon_entropy"]
    /\ ret' = NoRet
    /\ UNCHANGED <<G, res, calls>>

\* one pass of the loop `for _ in range(niter)` on a graph with nodes
Trial ==
    /\ pc = "mse"
    /\ mse.i < mse.niter
    /\ number_of_nodes(G) > 0
    /\ \E rs \in remove_draws(G.nodes, mse.f) :
          LET t == trial(G, rs)
          IN  /\ mse' = [mse EXCEPT !.i = @ + 1,
                                    !.H_msh_mean = Append(@, t.H_msh),
                                    !.warned = @ \/ mse.removal # "random",
                                    !.last = t]
              /\ G' = graph_after_trial(G, t.G_f)
    /\ UNCHANGED <<G0, call, ret, pc, res, calls>>

\* the pass on a graph without nodes: p_i_unif = 1 / N divides by zero
TrialZeroDivision ==
    /\ pc = "mse"
    /\ mse.i < mse.niter
    /\ number_of_nodes(G) = 0
    /\ pc' = "raised"
    /\ ret' = [NoRet EXCEPT !.status = "error", !.exc = "ZeroDivisionError"]
    /\ UNCHANGED <<G, G0, call, mse, res, calls>>

\* the return of a call made by the caller: the graph is as it was, and
\* the run ends here (pc = "done")
ReturnEntropy ==
    /\ pc = "mse"
    /\ mse.caller = "caller"
    /\ mse.i = mse.niter
    /\ LET r == mse_return(mse.H_msh_mean, mse.niter, mse.return_stdv)
       IN  ret' = [NoRet EXCEPT !.status = "ok", !.kind = r.kind, !.value = r.value]
    /\ pc' = "done"
    /\ UNCHANGED <<G, G0, call, mse, res, calls>>

Fractions == {<<0, 1>>, <<1, 2>>, <<1, 1>>}
Removals == {"random", "degree"}
\* the trial counts niter: one trial, and the two sides of niter > 4
Niters == {1, StdvThreshold, StdvThreshold + 1}

PlainGraphs == {g \in InitGraphs : g.gex = EmptyFun}

InitEntropy ==
    /\ G \in PlainGraphs
    /\ G0 = G
    /\ call = NoCall
    /\ ret = NoRet
    /\ pc = "idle"
    /\ mse = NoMse
    /\ res = NoRes
    /\ calls = 0

NextEntropy ==
    \/ \E f \in Fractions, removal \in Removals, niter \in Niters,
          return_stdv \in BOOLEAN : CallEntropy(f, removal, niter, return_stdv)
    \/ Trial
    \/ TrialZeroDivision
    \/ ReturnEntropy

SpecEntropy == InitEntropy /\ [][NextEntropy]_vars

(***************************************************************************)
(* resilience(G, ntimes, rate, output_list, removal, H_std, niter).        *)
(***************************************************************************)
\* np.linspace(0, 1, rate)[k], k = 0 .. rate-1: the one point 0 for rate = 1
linspace(rate, k) == IF rate = 1 THEN <<0, 1>> ELSE <<k, rate - 1>>

\* np.array(rows).mean(axis=0): the mean of each column of the rows
mean_axis0(rows) ==
    [k \in 1 .. Len(rows[1]) |-> np_mean([t \in 1 .. Len(rows) |-> rows[t][k]])]

\* 1 - sum(out_mean) / rate
resilience_score(out_mean, rate) ==
    IF HasNaN(out_mean) THEN NaN ELSE Milli - SeqSum(out_mean) \div rate

\* a call resilience(G, ntimes, rate, output_list, removal, H_std, niter)
\* from the caller
CallResilience(ntimes, rate, output_list, removal, H_std, niter) ==
    /\ pc = "idle"
    /\ pc' = "res"
    /\ res' = [NoRes EXCEPT !.ntimes = ntimes, !.rate = rate,
                            !.output_list = output_list, !.removal = removal,
                            !.H_std = H_std, !.niter = niter]
    /\ G0' = G
    /\ call' = [NoCall EXCEPT !.op = "resilience"]
    /\ ret' = NoRet
    /\ UNCHANGED <<G, mse, calls>>

\* the call modified_shannon_entropy(G, f, removal, niter, H_std) for the
\* next f of np.linspace(0, 1, rate)
ResilienceCallEntropy ==
    /\ pc = "res"
    /\ res.t < res.ntimes
    /\ pc' = "mse"
    /\ mse' = mse_enter(linspace(res.rate, res.k), res.removal, res.niter, res.H_std,
                        "resilience")
    /\ UNCHANGED <<G, G0, call, ret, res, calls>>

\* H_msh_mean, H_msh_stdv = <the value returned>: a float cannot be
\* unpacked; after the last f of a sweep the two rows join out_mean,
\* out_stdv.  The locals of the call that returned are gone.
ResilienceUnpack ==
    /\ pc = "mse"
    /\ mse.caller = "resilience"
    /\ mse.i = mse.niter
    /\ LET r == mse_return(mse.H_msh_mean, mse.niter, mse.return_stdv)
           means == Append(res.H_out_mean, r.value[1])
           stdvs == Append(res.H_out_stdv, r.value[2])
       IN  IF r.kind # "tuple"
           THEN /\ pc' = "raised"
                /\ ret' = [NoRet EXCEPT !.status = "error", !.exc = "TypeError"]
                /\ res' = res
                /\ mse' = mse
           ELSE /\ pc' = "res"
                /\ ret' = ret
                /\ mse' = NoMse
                /\ res' = IF res.k + 1 < res.rate
                          THEN [res EXCEPT !.k = @ + 1, !.H_out_mean = means,
                                           !.H_out_stdv = stdvs]
                          ELSE [res EXCEPT !.k = 0, !.t = @ + 1,
                                           !.H_out_mean = <<>>, !.H_out_stdv = <<>>,
                                           !.out_mean = Append(@, means),
                                           !.out_stdv = Append(@, stdvs)]
    /\ UNCHANGED <<G, G0, call, calls>>

\* the return of resilience: the curve, or the score 1 - sum(out_mean) / rate
ResilienceReturn ==
    /\ pc = "res"
    /\ res.t = res.ntimes
    /\ LET out_mean == mean_axis0(res.out_mean)
       IN  ret' = IF res.output_list
                  THEN [NoRet EXCEPT !.status = "ok", !.kind = "ndarray",
                                     !.value = out_mean]
                  ELSE [NoRet EXCEPT !.status = "ok", !.kind = "float",
                                     !.value = <<resilience_score(out_mean, res.rate)>>]
    /\ pc' = "done"
    /\ UNCHANGED <<G, G0, call, mse, res, calls>>

\* the repeats ntimes are 1 .. MaxNtimes
MaxNtimes == 2
\* the grid sizes rate are 1 .. MaxRate
MaxRate == 3

NextResilience ==
    \/ \E ntimes \in 1 .. MaxNtimes, rate \in 1 .. MaxRate, output_list \in BOOLEAN,
          removal \in Removals, H_std \in BOOLEAN, niter \in Niters :
            CallResilience(ntimes, rate, output_list, removal, H_std, niter)
    \/ ResilienceCallEntropy
    \/ Trial
    \/ TrialZeroDivision
    \/ ResilienceUnpack
    \/ ResilienceReturn

SpecResilience == InitEntropy /\ [][NextResilience]_vars

(***************************************************************************)
(* The claims.                                                             *)
(***************************************************************************)
AddNodeDone(method) == call.op = "add_node" /\ call.method = method

\* the nodes of positive degree of the graph the call was made on
PositiveDegree0 == {v \in G0.nodes : degree(G0, v) > 0}

\* a trial of modified_shannon_entropy has run and its locals are in mse.last
InTrial == pc \in {"mse", "done"} /\ mse.i > 0

FractionIsZero == mse.f[1] = 0
FractionIsOne == mse.f[1] = mse.f[2]

\* C1: on a graph of at least 2 nodes, resilience(G, ntimes, rate,
\* output_list=True, removal, H_std, niter) returns normally for every
\* ntimes, rate, niter >= 1 and either H_std, and the curve it returns has
\* exactly rate entries: it does not end in an exception.
C1_ResilienceReturnsCurve ==
    (call.op = "resilience" /\ number_of_nodes(G0) >= 2 /\ res.output_list
        /\ pc \in {"done", "raised"})
    => (pc = "done" /\ ret.status = "ok" /\ ret.kind = "ndarray"
        /\ Len(ret.value) = res.rate)

\* C2: when add_node with method 'random' or 'degree' returns, for a new
\* node n and 0 <= m <= number of nodes, n is a node of G of degree m, G has
\* one node more and m edges more than before the call.
C2_GrowthInvariant ==
    (call.op = "add_node" /\ call.method \in {"random", "degree"}
        /\ ret.status = "ok" /\ call.n \notin G0.nodes
        /\ call.m <= number_of_nodes(G0))
    => /\ call.n \in G.nodes
       /\ degree(G, call.n) = call.m
       /\ number_of_nodes(G) = number_of_nodes(G0) + 1
       /\ Cardinality(G.edges) = Cardinality(G0.edges) + call.m

\* C3: for each method, a call of add_node with m greater than the number
\* of nodes of G ends in an exception and leaves G as it was: no node, edge
\* or gene_expression is added or changed.
C3_OversizeSampleRaises ==
    (call.op = "add_node" /\ call.m > number_of_nodes(G0))
    => (ret.status = "error" /\ pc = "raised" /\ G = G0)

C3_Witness ==
    /\ AddNodeDone("bio_smart")
    /\ number_of_nodes(G0) >= 2
    /\ DOMAIN G0.gex = G0.nodes
    /\ call.m > number_of_nodes(G0)
    /\ ret.status = "error"

\* C4: modified_shannon_entropy leaves the caller's graph as it was, after
\* every trial and at its return: each trial removes its nodes from a copy
\* of the whole of G.
C4_GraphUntouched ==
    (call.op = "modified_shannon_entropy")
    => /\ G = G0
       /\ InTrial =>
            /\ mse.last.G_f.nodes = G0.nodes \ mse.last.remove_nodes
            /\ mse.last.G_f.edges =
                  {e \in G0.edges : e \cap mse.last.remove_nodes = {}}

C4_Witness ==
    /\ call.op = "modified_shannon_entropy"
    /\ pc = "done"
    /\ mse.niter > StdvThreshold
    /\ mse.last.remove_nodes # {}
    /\ mse.last.G_f.edges # G0.edges
    /\ G0.edges # {}

\* C5: at f = 1 on a graph of N >= 2 nodes every trial removes every node,
\* no component is left, curr is the N singleton terms (1/N) log2(1/N), and
\* the entropy of the trial and the value returned are 1.0.
C5_AllRemovedEntropyOne ==
    (call.op = "modified_shannon_entropy" /\ FractionIsOne
        /\ number_of_nodes(G0) >= 2)
    => /\ InTrial =>
            /\ mse.last.remove_nodes = G0.nodes
            /\ mse.last.Cs = {}
            /\ mse.last.curr = - number_of_nodes(G0) * Log2Milli(number_of_nodes(G0))
            /\ mse.last.H_msh = Milli
            /\ \A i \in DOMAIN mse.H_msh_mean : mse.H_msh_mean[i] = Milli
       /\ pc = "done" => (ret.status = "ok" /\ ret.value[1] = Milli)

C5_Witness ==
    /\ call.op = "modified_shannon_entropy"
    /\ FractionIsOne
    /\ pc = "done"
    /\ number_of_nodes(G0) >= 3
    /\ G0.edges # {}
    /\ mse.niter > StdvThreshold
    /\ ret.value[1] = Milli

\* C6: at f = 0 on a graph of N >= 2 nodes no trial removes a node, the
\* components used are those of G, the entropy is that of the component
\* sizes of G, and it is 0 when G is connected.
C6_NothingRemovedAtZero ==
    (call.op = "modified_shannon_entropy" /\ FractionIsZero
        /\ number_of_nodes(G0) >= 2)
    => LET N == number_of_nodes(G0)
           H == H_msh_of(component_mass(connected_components(G0), N), N)
       IN  /\ InTrial =>
                /\ mse.last.remove_nodes = {}
                /\ mse.last.Cs = connected_components(G0)
                /\ mse.last.H_msh = H
                /\ connected_components(G0) = {G0.nodes} => mse.last.H_msh = 0
           /\ pc = "done" => (ret.status = "ok" /\ ret.value[1] = H)

C6_Witness ==
    /\ call.op = "modified_shannon_entropy"
    /\ FractionIsZero
    /\ pc = "done"
    /\ number_of_nodes(G0) >= 3
    /\ Cardinality(connected_components(G0)) = 2
    /\ ret.value[1] > 0

\* C7: when add_node with method 'bio_smart' returns, on a graph whose
\* nodes all carry gene_expression and for 0 <= m <= number of nodes, the
\* node 'added_protein_' + str(n) is in G and its gene_expression is the
\* 10th percentile of the values before the call.
C7_BioSmartDecile ==
    (AddNodeDone("bio_smart") /\ ret.status = "ok"
        /\ DOMAIN G0.gex = G0.nodes /\ call.m <= number_of_nodes(G0))
    => /\ AddedProtein(call.n) \in G.nodes
       /\ AddedProtein(call.n) \in DOMAIN G.gex
       /\ G.gex[AddedProtein(call.n)] = np_percentile(G0.gex, 10)

\* C8: on a graph with a node that has no gene_expression, add_node with
\* method 'bio_smart' ends in an exception for every m, and G is as it was.
C8_MissingAttributeRaises ==
    (AddNodeDone("bio_smart") /\ \E v \in G0.nodes : v \notin DOMAIN G0.gex)
    => (ret.status = "error" /\ pc = "raised" /\ G = G0)

C8_Witness ==
    /\ AddNodeDone("bio_smart")
    /\ \E v \in G0.nodes : v \notin DOMAIN G0.gex
    /\ \E v \in G0.nodes : v \in DOMAIN G0.gex /\ G0.gex[v][1] > 0
    /\ call.m = 1
    /\ ret.status = "error"

\* C9: in every trial N is the node count of G before any removal, and the
\* removed nodes and the components of the copy partition the nodes of G:
\* their sizes add up to N.
C9_TrialPartition ==
    (call.op = "modified_shannon_entropy" /\ InTrial)
    => /\ mse.last.N = number_of_nodes(G0)
       /\ mse.last.remove_nodes \cup UNION mse.last.Cs = G0.nodes
       /\ \A C \in mse.last.Cs : C # {} /\ C \cap mse.last.remove_nodes = {}
       /\ \A C, D \in mse.last.Cs : C # D => C \cap D = {}
       /\ Cardinality(mse.last.remove_nodes) + Cardinality(UNION mse.last.Cs)
             = mse.last.N

C9_Witness ==
    /\ call.op = "modified_shannon_entropy"
    /\ InTrial
    /\ mse.i > 1
    /\ mse.last.remove_nodes # {}
    /\ Cardinality(mse.last.Cs) = 2

\* C10: add_node with method 'degree' and alpha > 0 attaches the new node
\* to m distinct nodes of G that had positive degree before the call, and
\* when fewer than m nodes have positive degree it ends in an exception and
\* leaves G as it was.
C10_DegreeTargets ==
    (AddNodeDone("degree") /\ call.alpha > 0)
    => /\ ret.status = "ok" =>
            /\ ret.eijs \subseteq PositiveDegree0
            /\ Cardinality(ret.eijs) = call.m
       /\ Cardinality(PositiveDegree0) < call.m =>
            (ret.status = "error" /\ G = G0)

====
